---- MODULE Spec2Model ----
(***************************************************************************)
(* Model of the MCP demo server's tool core (python-server/mcp_server.py): *)
(* the tool catalogue (list_tools), the dispatcher call_tool with its      *)
(* three handlers (echotest, timeserver, fetch) and clamp, driven one      *)
(* invocation at a time by the test client.                                *)
(*                                                                         *)
(* Python values are modelled as follows.                                  *)
(*  - A JSON value is a record [t |-> type, v |-> value] with t one of     *)
(*    "str", "int", "bool", "null".                                        *)
(*  - A Python str built by an f-string is the sequence of its fragments   *)
(*    (the literal parts joined into TLA+ strings, an interpolated number  *)
(*    or decoded body kept as its own fragment); a plain str is the        *)
(*    one-fragment sequence <<s>>.                                         *)
(*  - An exception caught by a handler is a record of its class and what   *)
(*    the handler reads from it; one that leaves call_tool is the name of  *)
(*    its class.  Bases gives the classes a class is an instance of.       *)
(***************************************************************************)
EXTENDS Integers, Sequences, FiniteSets, TLC

VARIABLES pc, name, arguments, payload, net, clock, branch, requests, gets,
          locals, outcome

vars ==
  <<pc, name, arguments, payload, net, clock, branch, requests, gets, locals,
    outcome>>

(***************************************************************************)
(* Program constants.                                                      *)
(***************************************************************************)
DEFAULT_MAX_BYTES == 4096
MIN_BYTES == 256
MAX_BYTES == 65536

(***************************************************************************)
(* Bounds of the model.                                                    *)
(***************************************************************************)
\* How far below/above each threshold the sampled integers go.
Slack == 1
\* Clock readings are 0..MaxClock.
MaxClock == 1
\* Redirections a server answers with before its final answer.
MaxHops == 1

(***************************************************************************)
(* JSON values and Python helpers.                                         *)
(***************************************************************************)
JStr(s) == [t |-> "str", v |-> s]
JInt(n) == [t |-> "int", v |-> n]
JBool(b) == [t |-> "bool", v |-> b]
JNull == [t |-> "null", v |-> 0]

\* dict.get(key, default)
Get(d, key, default) == IF key \in DOMAIN d THEN d[key] ELSE default

\* Python truthiness of a JSON value.
Truthy(x) ==
  CASE x.t = "str" -> x.v # ""
    [] x.t = "int" -> x.v # 0
    [] x.t = "bool" -> x.v
    [] OTHER -> FALSE

\* Whether a value takes part in integer comparison (bool is an int subclass).
IsNumber(x) == x.t \in {"int", "bool"}

NumVal(x) == IF x.t = "bool" THEN (IF x.v THEN 1 ELSE 0) ELSE x.v

Min(a, b) == IF a <= b THEN a ELSE b

Max(a, b) == IF a >= b THEN a ELSE b

\* str.startswith
StartsWith(s, p) == Len(s) >= Len(p) /\ SubSeq(s, 1, Len(p)) = p

\* An outcome of call_tool: a returned content list, or a raised exception.
Return(content) == [kind |-> "return", content |-> content]

Raise(exc) == [kind |-> "raise", exc |-> exc]

NoOutcome == [kind |-> "none"]

\* TextContent(type="text", text=...): the text field is validated as a str.
TextContent(text) == [type |-> "text", text |-> text]

\* json.dumps of one value, and of the argument mapping (keys in sorted order).
DumpsValue(x) ==
  CASE x.t = "str" -> "\"" \o x.v \o "\""
    [] x.t = "int" -> ToString(x.v)
    [] x.t = "bool" -> (IF x.v THEN "true" ELSE "false")
    [] OTHER -> "null"

RECURSIVE DumpsItems(_, _)
DumpsItems(d, keys) ==
  IF keys = <<>> THEN ""
  ELSE LET k == Head(keys)
           rest == DumpsItems(d, Tail(keys))
       IN IF k \notin DOMAIN d THEN rest
          ELSE "\"" \o k \o "\": " \o DumpsValue(d[k])
               \o (IF \E j \in 1..Len(Tail(keys)) : Tail(keys)[j] \in DOMAIN d
                   THEN ", " ELSE "")
               \o rest

JsonDumps(d) ==
  "{" \o DumpsItems(d, <<"max_bytes", "message", "timezone", "url">>) \o "}"

\* Mutation of clamp: the default is taken for negative values only.
clamp_strict(value, min_val, max_val) ==
  IF ~IsNumber(value) THEN [ok |-> FALSE, exc |-> "TypeError"]
  ELSE IF NumVal(value) < 0 THEN [ok |-> TRUE, val |-> DEFAULT_MAX_BYTES]
  ELSE [ok |-> TRUE, val |-> Max(min_val, Min(NumVal(value), max_val))]

(***************************************************************************)
(* clamp (mcp_server.py 31-35).  Comparing a non-number with 0 raises      *)
(* TypeError; the result is a record [ok, val] or [ok, exc].               *)
(***************************************************************************)
clamp(value, min_val, max_val) ==
  IF ~IsNumber(value) THEN [ok |-> FALSE, exc |-> "TypeError"]
  ELSE IF NumVal(value) <= 0 THEN [ok |-> TRUE, val |-> DEFAULT_MAX_BYTES]
  ELSE [ok |-> TRUE, val |-> Max(min_val, Min(NumVal(value), max_val))]

(***************************************************************************)
(* ZoneInfo(key) (zoneinfo, called at 104): a key that is not a str, or is *)
(* an absolute or non-normalized path, is rejected with TypeError or       *)
(* ValueError before any lookup; a well-formed key missing from the zone   *)
(* database raises ZoneInfoNotFoundError.                                  *)
(***************************************************************************)
ZoneDatabase == {"UTC", "Europe/Kyiv", "America/New_York"}

\* The "/"-separated components of a path.
RECURSIVE Components(_, _)
Components(s, cur) ==
  IF s = "" THEN <<cur>>
  ELSE IF SubSeq(s, 1, 1) = "/"
       THEN <<cur>> \o Components(SubSeq(s, 2, Len(s)), "")
       ELSE Components(SubSeq(s, 2, Len(s)), cur \o SubSeq(s, 1, 1))

\* os.path.isabs(key), or os.path.normpath(key) differs from key / leaves TZPATH.
BadZonePath(key) ==
  \/ StartsWith(key, "/")
  \/ LET cs == Components(key, "")
     IN \E i \in 1..Len(cs) : cs[i] \in {"", ".", ".."}

ZoneInfo(key) ==
  IF key.t # "str" THEN [ok |-> FALSE, exc |-> "TypeError"]
  ELSE IF BadZonePath(key.v) THEN [ok |-> FALSE, exc |-> "ValueError"]
  ELSE IF key.v \notin ZoneDatabase
       THEN [ok |-> FALSE, exc |-> "ZoneInfoNotFoundError"]
  ELSE [ok |-> TRUE, tz |-> key.v]

\* datetime.now(tz) at clock reading t, and its isoformat() / timestamp().
DateTime(t, tz) == [epoch |-> t, tz |-> tz]

IsoFormat(dt) == <<"iso8601", dt.epoch, dt.tz>>

Timestamp(dt) == dt.epoch

(***************************************************************************)
(* Exceptions: a record of the class and what the handlers read from it    *)
(* (code and reason of an HTTPError, reason of a URLError, str(e)).        *)
(***************************************************************************)
Exc(cls, code, reason, msg) ==
  [cls |-> cls, code |-> code, reason |-> reason, msg |-> msg]

\* The classes an exception of class cls is an instance of.
Bases(cls) ==
  CASE cls = "HTTPError" -> {"HTTPError", "URLError", "OSError", "Exception"}
    [] cls = "URLError" -> {"URLError", "OSError", "Exception"}
    [] cls = "TimeoutError" -> {"TimeoutError", "OSError", "Exception"}
    [] cls = "RemoteDisconnected" ->
         {"RemoteDisconnected", "ConnectionResetError", "OSError", "Exception"}
    [] OTHER -> {cls, "Exception"}

IsInstance(e, cls) == cls \in Bases(e.cls)

(***************************************************************************)
(* int(s) for a str (149): surrounding blanks are stripped, an optional    *)
(* sign is read, and the rest must be decimal digits, else ValueError.     *)
(***************************************************************************)
Digits == <<"0", "1", "2", "3", "4", "5", "6", "7", "8", "9">>

IsDigit(c) == \E d \in 1..10 : Digits[d] = c

DigitVal(c) == (CHOOSE d \in 1..10 : Digits[d] = c) - 1

RECURSIVE Strip(_)
Strip(s) ==
  IF s # "" /\ SubSeq(s, 1, 1) = " " THEN Strip(SubSeq(s, 2, Len(s)))
  ELSE IF s # "" /\ SubSeq(s, Len(s), Len(s)) = " "
       THEN Strip(SubSeq(s, 1, Len(s) - 1))
       ELSE s

RECURSIVE DigitsVal(_, _)
DigitsVal(s, acc) ==
  IF s = "" THEN acc
  ELSE DigitsVal(SubSeq(s, 2, Len(s)), 10 * acc + DigitVal(SubSeq(s, 1, 1)))

PyInt(str) ==
  LET s == Strip(str)
      signed == s # "" /\ SubSeq(s, 1, 1) \in {"+", "-"}
      ds == IF signed THEN SubSeq(s, 2, Len(s)) ELSE s
  IN IF ds = "" \/ \E i \in 1..Len(ds) : ~IsDigit(SubSeq(ds, i, i))
     THEN [ok |-> FALSE, exc |-> "ValueError"]
     ELSE [ok |-> TRUE,
           val |-> IF signed /\ SubSeq(s, 1, 1) = "-"
                   THEN 0 - DigitsVal(ds, 0) ELSE DigitsVal(ds, 0)]

(***************************************************************************)
(* bytes.decode('utf-8', errors='replace') (156), for bodies made of ASCII *)
(* bytes, two-byte sequences and bytes that start no sequence: an ASCII    *)
(* byte is its own code point, a lead byte followed by a continuation byte *)
(* is one code point, and every other byte becomes U+FFFD.                 *)
(***************************************************************************)
REPLACEMENT == 65533

IsAscii(b) == b < 128

IsLead2(b) == 194 <= b /\ b <= 223

IsCont(b) == 128 <= b /\ b <= 191

Utf8Decode(bytes) ==
  LET n == Len(bytes)
      Consumed(i) == i > 1 /\ IsCont(bytes[i]) /\ IsLead2(bytes[i - 1])
      At(i) ==
        IF Consumed(i) THEN 0 - 1
        ELSE IF IsAscii(bytes[i]) THEN bytes[i]
        ELSE IF IsLead2(bytes[i]) /\ i < n /\ IsCont(bytes[i + 1])
             THEN (bytes[i] - 192) * 64 + (bytes[i + 1] - 128)
        ELSE REPLACEMENT
      Keep(c) == c >= 0
  IN SelectSeq([i \in 1..n |-> At(i)], Keep)

(***************************************************************************)
(* The network as urlopen sees it (143-146).  An event is what happens to  *)
(* the single GET: a response (status line, Content-Length header, body on *)
(* the wire), an HTTP error status, a connection failure, a timeout in one *)
(* of its phases, or the peer closing before the status line.              *)
(***************************************************************************)
\* The body a server sends: n bytes of a fixed mixed ASCII / UTF-8 pattern.
BodyPattern == <<195, 169, 65, 255, 169, 10, 195>>

WireBytes(n) == [i \in 1..n |-> BodyPattern[((i - 1) % Len(BodyPattern)) + 1]]

NoHeader == [present |-> FALSE, raw |-> ""]

Header(raw) == [present |-> TRUE, raw |-> raw]

\* urllib.request.urlopen(req, timeout=10): the response, or the exception
\* raised.  Only a failure while connecting and sending the request is wrapped
\* in URLError; a timeout or disconnect while waiting for the status line is
\* raised as it is.
Urlopen(ev) ==
  CASE ev.kind = "response" -> [ok |-> TRUE, response |-> ev]
    [] ev.kind = "timeout" /\ ev.phase = "read" -> [ok |-> TRUE, response |-> ev]
    [] ev.kind = "http_error" ->
         [ok |-> FALSE, exc |-> Exc("HTTPError", ev.status, ev.reason, ev.reason)]
    [] ev.kind = "conn_fail" ->
         [ok |-> FALSE, exc |-> Exc("URLError", 0, ev.reason, ev.reason)]
    [] ev.kind = "timeout" /\ ev.phase = "connect" ->
         [ok |-> FALSE, exc |-> Exc("URLError", 0, "timed out", "timed out")]
    [] ev.kind = "timeout" /\ ev.phase = "headers" ->
         [ok |-> FALSE, exc |-> Exc("TimeoutError", 0, "", "timed out")]
    [] OTHER ->
         [ok |-> FALSE,
          exc |-> Exc("RemoteDisconnected", 0, "",
                      "Remote end closed connection without response")]

\* The GET requests one call of urlopen puts on the wire: the one for the
\* URL given and one more for every redirection its default opener follows.
Sent(ev) == 1 + ev.hops

\* response.getheader('Content-Length'): None (not Truthy) when absent.
GetHeader(response) ==
  IF response.content_length.present
  THEN JStr(response.content_length.raw) ELSE JNull

\* The length http.client takes from the header: none when absent, not a
\* number, or negative.
DeclaredLength(response) ==
  LET h == response.content_length
      n == PyInt(h.raw)
  IN IF h.present /\ n.ok /\ n.val >= 0 THEN n.val ELSE 0 - 1

\* Mutation of Read: response.read() without the cap.
Read_uncapped(response, amt) ==
  IF response.kind = "timeout"
  THEN [ok |-> FALSE, exc |-> Exc("TimeoutError", 0, "", "timed out")]
  ELSE LET length == DeclaredLength(response)
           want == IF length >= 0 THEN length ELSE response.wire
       IN [ok |-> TRUE,
           body |-> SubSeq(WireBytes(response.wire), 1, Min(want, response.wire))]

\* response.read(amt): at most amt bytes, at most the declared length, at most
\* what the server sent; a stalled body raises the socket's timeout.
Read(response, amt) ==
  IF response.kind = "timeout"
  THEN [ok |-> FALSE, exc |-> Exc("TimeoutError", 0, "", "timed out")]
  ELSE LET length == DeclaredLength(response)
           want == IF length >= 0 THEN Min(amt, length) ELSE amt
       IN [ok |-> TRUE,
           body |-> SubSeq(WireBytes(response.wire), 1, Min(want, response.wire))]

(***************************************************************************)
(* The tool catalogue (list_tools).                                        *)
(***************************************************************************)
list_tools ==
  << [name |-> "echotest", required |-> <<"message">>,
      properties |-> <<[name |-> "message", type |-> "string"]>>],
     [name |-> "timeserver", required |-> <<>>,
      properties |-> <<[name |-> "timezone", type |-> "string"]>>],
     [name |-> "fetch", required |-> <<"url">>,
      properties |-> <<[name |-> "url", type |-> "string"],
                       [name |-> "max_bytes", type |-> "integer"]>>] >>

\* No arguments / no network event / no locals.
NoArgs == [k \in {} |-> JNull]

NoNet == [kind |-> "none"]

NoLocals == [k \in {} |-> 0]

(***************************************************************************)
(* Inputs.                                                                 *)
(***************************************************************************)
ToolNames == {"echotest", "timeserver", "fetch", "nope", "", "Fetch"}

Messages ==
  {JStr(""), JStr("hello"), JStr(" two  words\n"), JStr("Unknown tool: echotest"),
   JInt(7), JBool(TRUE), JNull}

EchoArgs ==
  {NoArgs} \cup {[k \in {"message"} |-> m] : m \in Messages}

Timezones ==
  {JStr(""), JStr("UTC"), JStr("Europe/Kyiv"), JStr("Not/AZone"), JStr("Mars"),
   JStr("../etc/passwd"), JStr("/etc/localtime"), JStr("Europe//Kyiv"),
   JInt(5), JInt(0), JBool(TRUE), JNull}

TimeArgs ==
  {NoArgs} \cup {[k \in {"timezone"} |-> z] : z \in Timezones}

Clock == 0..MaxClock

Thresholds == {MIN_BYTES, DEFAULT_MAX_BYTES, MAX_BYTES}

\* max_bytes: around zero and around each end of the range, and not a number.
MaxBytesValues ==
  {JInt(d) : d \in (0 - Slack)..Slack}
    \cup {JInt(x + d) : x \in {MIN_BYTES, MAX_BYTES}, d \in {0 - Slack, 0, Slack}}
    \cup {JBool(TRUE), JStr("abc"), JNull}

Urls ==
  {JStr(""), JStr("ftp://x"), JStr("http:/x"), JStr("http://example.com/"),
   JStr("https://example.com/a"), JInt(5), JInt(0), JNull}

FetchArgs ==
  {[k \in {"url"} |-> u] : u \in Urls}
    \cup {[k \in {"max_bytes"} |-> m] : m \in MaxBytesValues}
    \cup {[k \in {"url", "max_bytes"} |-> IF k = "url" THEN u ELSE m] :
            u \in Urls, m \in MaxBytesValues}
    \cup {NoArgs}

\* Declared sizes: each threshold and just above it.
Sizes == {x + d : x \in Thresholds, d \in {0, Slack}}

\* Body sizes on the wire: empty, the floor, and just above the default and the cap.
WireSizes == {0, MIN_BYTES, DEFAULT_MAX_BYTES + Slack, MAX_BYTES + Slack}

ContentLengths ==
  {NoHeader, Header(""), Header("junk"), Header(" 300 ")}
    \cup {Header(ToString(n)) : n \in Sizes}

Responses ==
  {[kind |-> "response", status |-> 200, reason |-> "OK",
    content_length |-> h, wire |-> w, phase |-> "", hops |-> 0] :
      h \in ContentLengths, w \in WireSizes}

Failures ==
  {[kind |-> "http_error", status |-> c, reason |-> r,
    content_length |-> NoHeader, wire |-> 0, phase |-> "", hops |-> 0] :
      c \in {404, 503}, r \in {"Not Found"}}
    \cup {[kind |-> "conn_fail", status |-> 0, reason |-> r,
           content_length |-> NoHeader, wire |-> 0, phase |-> "", hops |-> 0] :
             r \in {"[Errno 111] Connection refused",
                    "[Errno -2] Name or service not known"}}
    \cup {[kind |-> "timeout", status |-> 200, reason |-> "OK",
           content_length |-> h, wire |-> MIN_BYTES, phase |-> ph, hops |-> 0] :
             h \in {NoHeader}, ph \in {"connect", "headers", "read"}}
    \cup {[kind |-> "disconnect", status |-> 0, reason |-> "",
           content_length |-> NoHeader, wire |-> 0, phase |-> "", hops |-> 0]}

\* What a redirection can lead to: any failure, or a response with a short body.
RedirectTargets ==
  Failures \cup {r \in Responses : r.wire <= MIN_BYTES /\ ~r.content_length.present}

\* The same events reached through 1..MaxHops redirections (301, 302, 303,
\* 307 or 308 with a Location header), each of which urlopen follows with a
\* new GET before it returns or raises.
Redirected ==
  {[ev EXCEPT !.hops = h] : ev \in RedirectTargets, h \in 1..MaxHops}

NetEvents == Responses \cup Failures \cup Redirected

(***************************************************************************)
(* Initial state: the client is connected and no invocation is running.    *)
(***************************************************************************)
Init ==
  /\ pc = "idle"
  /\ name = ""
  /\ arguments = NoArgs
  /\ payload = ""
  /\ net = NoNet
  /\ clock = <<>>
  /\ branch = ""
  /\ requests = 0
  /\ gets = 0
  /\ locals = NoLocals
  /\ outcome = NoOutcome

(***************************************************************************)
(* What call_tool leaves behind: its outcome, the locals of the handler    *)
(* (max_bytes once resolved, e once an except clause has bound it) and the *)
(* number of calls of urlopen made.                                        *)
(***************************************************************************)
Done(out, loc, reqs) ==
  [outcome |-> out, locals |-> loc, requests |-> reqs, gets |-> 0]

\* The same after n GET requests have gone out on the wire.
OnWire(done, n) == [done EXCEPT !.gets = n]

\* The same with the branch of call_tool that ran.
In(b, done) ==
  [branch |-> b, outcome |-> done.outcome, locals |-> done.locals,
   requests |-> done.requests, gets |-> done.gets]

\* return [TextContent(type="text", text=...)] for a str given as fragments.
Text(fragments) == Return(<<TextContent(fragments)>>)

\* Mutation of Echotest: arguments["message"] without a default.
Echotest_nodefault(args) ==
  IF "message" \notin DOMAIN args THEN Done(Raise("KeyError"), NoLocals, 0)
  ELSE IF args["message"].t = "str"
  THEN Done(Text(<<args["message"].v>>), NoLocals, 0)
  ELSE Done(Raise("ValidationError"), NoLocals, 0)

(***************************************************************************)
(* call_tool, echotest branch (94-97).  TextContent rejects a text that is *)
(* not a str.                                                              *)
(***************************************************************************)
Echotest(args) ==
  LET message == Get(args, "message", JStr(""))
  IN IF message.t = "str"
     THEN Done(Text(<<message.v>>), NoLocals, 0)
     ELSE Done(Raise("ValidationError"), NoLocals, 0)

(***************************************************************************)
(* call_tool, timeserver branch (99-124).  t1 and t2 are the clock         *)
(* readings of the two datetime.now calls.                                 *)
(***************************************************************************)
TimeText(now_local, loc_str, now_utc) ==
  << "now_local=", IsoFormat(now_local), " (tz=" \o loc_str \o ")\nnow_utc=",
     IsoFormat(now_utc), "\nunix=", Timestamp(now_local) >>

Timeserver(args, t1, t2) ==
  LET timezone == Get(args, "timezone", JStr(""))
      now_utc == DateTime(t2, "UTC")
  IN IF Truthy(timezone)
     THEN LET tz == ZoneInfo(timezone)
          IN IF tz.ok
             THEN Done(Text(TimeText(DateTime(t1, tz.tz), timezone.v, now_utc)),
                       NoLocals, 0)
             ELSE IF tz.exc = "ZoneInfoNotFoundError"
                  THEN Done(Text(<<"Error: invalid timezone '" \o timezone.v \o "'">>),
                            NoLocals, 0)
                  ELSE Done(Raise(tz.exc), NoLocals, 0)
     ELSE Done(Text(TimeText(DateTime(t1, "local"), "Local", now_utc)),
               NoLocals, 0)

(***************************************************************************)
(* call_tool, fetch branch (126-173).                                      *)
(***************************************************************************)
\* The f-string of 152-157.
FetchText(url, status, body, truncated_note) ==
  << "URL: " \o url \o "\nStatus: " \o status \o "\nBytes: ", Len(body),
     truncated_note \o "\n\n", Utf8Decode(body) >>

\* Mutation of FetchBody: the annotation is given from the cap itself (>=).
FetchBody_ge(url, max_bytes, response) ==
  LET content_length == GetHeader(response)
      read == Read(response, max_bytes)
      status == ToString(response.status) \o " " \o response.reason
      declared == PyInt(content_length.v)
  IN IF ~read.ok THEN [ok |-> FALSE, exc |-> read.exc]
     ELSE IF Truthy(content_length) /\ ~declared.ok
          THEN [ok |-> FALSE,
                exc |-> Exc(declared.exc, 0, "",
                            "invalid literal for int() with base 10: '"
                              \o content_length.v \o "'")]
     ELSE [ok |-> TRUE,
           text |-> FetchText(url, status, read.body,
                      IF Truthy(content_length) /\ declared.val >= max_bytes
                      THEN " (truncated)" ELSE "")]

\* The body of the with statement (144-160): a result text or an exception.
FetchBody(url, max_bytes, response) ==
  LET content_length == GetHeader(response)
      read == Read(response, max_bytes)
      status == ToString(response.status) \o " " \o response.reason
      declared == PyInt(content_length.v)
  IN IF ~read.ok THEN [ok |-> FALSE, exc |-> read.exc]
     ELSE IF Truthy(content_length) /\ ~declared.ok
          THEN [ok |-> FALSE,
                exc |-> Exc(declared.exc, 0, "",
                            "invalid literal for int() with base 10: '"
                              \o content_length.v \o "'")]
     ELSE [ok |-> TRUE,
           text |-> FetchText(url, status, read.body,
                      IF Truthy(content_length) /\ declared.val > max_bytes
                      THEN " (truncated)" ELSE "")]

\* Mutation of FetchExcept: the URLError clause placed before the HTTPError one.
FetchExcept_urlfirst(e) ==
  IF IsInstance(e, "URLError")
  THEN Text(<<"URL Error: " \o e.reason>>)
  ELSE IF IsInstance(e, "HTTPError")
  THEN Text(<<"HTTP Error " \o ToString(e.code) \o ": " \o e.reason>>)
  ELSE IF IsInstance(e, "Exception")
  THEN Text(<<"Fetch error: " \o e.msg>>)
  ELSE Raise(e.cls)

\* The except clauses of 162-173, tried in order.
FetchExcept(e) ==
  IF IsInstance(e, "HTTPError")
  THEN Text(<<"HTTP Error " \o ToString(e.code) \o ": " \o e.reason>>)
  ELSE IF IsInstance(e, "URLError")
  THEN Text(<<"URL Error: " \o e.reason>>)
  ELSE IF IsInstance(e, "Exception")
  THEN Text(<<"Fetch error: " \o e.msg>>)
  ELSE Raise(e.cls)

\* A try statement that calls urlopen a second time when the first call fails.
FetchTry_retry(url, max_bytes, ev) ==
  LET opened == Urlopen(ev)
      r == FetchBody(url, max_bytes, opened.response)
      loc == [k \in {"max_bytes"} |-> max_bytes]
      Caught(e, calls) ==
        OnWire(Done(FetchExcept(e),
                    [k \in {"max_bytes", "e"} |-> IF k = "e" THEN e ELSE max_bytes],
                    calls),
               calls * Sent(ev))
  IN IF ~opened.ok THEN Caught(opened.exc, 2)
     ELSE IF ~r.ok THEN Caught(r.exc, 1)
     ELSE OnWire(Done(Text(r.text), loc, 1), Sent(ev))

\* The try statement of 142-173, with max_bytes already resolved: urlopen is
\* called once (143) and no except clause calls it again.
FetchTry(url, max_bytes, ev) ==
  LET opened == Urlopen(ev)
      r == FetchBody(url, max_bytes, opened.response)
      loc == [k \in {"max_bytes"} |-> max_bytes]
      Caught(e) ==
        OnWire(Done(FetchExcept(e),
                    [k \in {"max_bytes", "e"} |-> IF k = "e" THEN e ELSE max_bytes],
                    1),
               Sent(ev))
  IN IF ~opened.ok THEN Caught(opened.exc)
     ELSE IF ~r.ok THEN Caught(r.exc)
     ELSE OnWire(Done(Text(r.text), loc, 1), Sent(ev))

Fetch(args, ev) ==
  LET url == Get(args, "url", JStr(""))
      max_bytes == clamp(Get(args, "max_bytes", JInt(0)), MIN_BYTES, MAX_BYTES)
      loc == [k \in {"max_bytes"} |-> max_bytes.val]
  IN IF ~max_bytes.ok THEN Done(Raise(max_bytes.exc), NoLocals, 0)
     ELSE IF ~Truthy(url)
     THEN Done(Text(<<"Error: URL is required">>), loc, 0)
     ELSE IF url.t # "str"
     THEN Done(Raise("AttributeError"), loc, 0)
     ELSE IF ~(StartsWith(url.v, "http://") \/ StartsWith(url.v, "https://"))
     THEN Done(Text(<<"Error: URL must start with http:// or https://">>), loc, 0)
     ELSE FetchTry(url.v, max_bytes.val, ev)

\* Mutation of call_tool: the first comparison names a tool the catalogue lacks.
call_tool_typo(n, args, ev, t1, t2) ==
  IF n = "echo" THEN In("echotest", Echotest(args))
  ELSE IF n = "timeserver" THEN In("timeserver", Timeserver(args, t1, t2))
  ELSE IF n = "fetch" THEN In("fetch", Fetch(args, ev))
  ELSE In("else", Done(Text(<<"Unknown tool: " \o n>>), NoLocals, 0))

(***************************************************************************)
(* call_tool (91-176): the dispatch on the tool name.                      *)
(***************************************************************************)
call_tool(n, args, ev, t1, t2) ==
  IF n = "echotest" THEN In("echotest", Echotest(args))
  ELSE IF n = "timeserver" THEN In("timeserver", Timeserver(args, t1, t2))
  ELSE IF n = "fetch" THEN In("fetch", Fetch(args, ev))
  ELSE In("else", Done(Text(<<"Unknown tool: " \o n>>), NoLocals, 0))

\* One invocation: the request as the client sent it and what call_tool did.
Invoke(n, args, ev, ts) ==
  \E r \in {call_tool(n, args, ev, IF ts = <<>> THEN 0 ELSE ts[1],
                      IF ts = <<>> THEN 0 ELSE ts[2])} :
     /\ pc' = "done"
     /\ name' = n
     /\ arguments' = args
     /\ payload' = JsonDumps(args)
     /\ net' = IF r.requests > 0 THEN ev ELSE NoNet
     /\ clock' = ts
     /\ branch' = r.branch
     /\ requests' = r.requests
     /\ gets' = r.gets
     /\ locals' = r.locals
     /\ outcome' = r.outcome

CallEchotest ==
  /\ pc = "idle"
  /\ \E args \in EchoArgs : Invoke("echotest", args, NoNet, <<>>)

CallTimeserver ==
  /\ pc = "idle"
  /\ \E args \in TimeArgs, t1 \in Clock, t2 \in Clock :
       Invoke("timeserver", args, NoNet, <<t1, t2>>)

CallFetch ==
  /\ pc = "idle"
  /\ \E args \in FetchArgs, ev \in NetEvents : Invoke("fetch", args, ev, <<>>)

CallUnknown ==
  /\ pc = "idle"
  /\ \E n \in ToolNames, args \in EchoArgs \cup TimeArgs :
       /\ \A i \in 1..Len(list_tools) : list_tools[i].name # n
       /\ Invoke(n, args, NoNet, <<>>)

(***************************************************************************)
(* The client takes the result of the invocation; the request and its      *)
(* result are discarded and the next command may be issued.                *)
(***************************************************************************)
Deliver ==
  /\ pc = "done"
  /\ pc' = "idle"
  /\ name' = ""
  /\ arguments' = NoArgs
  /\ payload' = ""
  /\ net' = NoNet
  /\ clock' = <<>>
  /\ branch' = ""
  /\ requests' = 0
  /\ gets' = 0
  /\ locals' = NoLocals
  /\ outcome' = NoOutcome

Next ==
  \/ CallEchotest
  \/ CallTimeserver
  \/ CallUnknown
  \/ CallFetch
  \/ Deliver

Spec == Init /\ [][Next]_vars

(***************************************************************************)
(* Properties.                                                             *)
(***************************************************************************)
Returned == pc = "done" /\ outcome.kind = "return"

\* The fragments of the first (and only) content item's text.
ResultText == outcome.content[1].text

\* call_tool returned exactly one text item holding the str s.
OneText(s) ==
  /\ Returned
  /\ outcome.content = <<TextContent(<<s>>)>>

\* The fetch returned the four-fragment success text of 152-157.
FetchSucceeded ==
  /\ pc = "done"
  /\ name = "fetch"
  /\ outcome.kind = "return"
  /\ Len(ResultText) = 4

CatalogueNames == {list_tools[i].name : i \in 1..Len(list_tools)}

\* C1: every invocation ends with call_tool returning a list of text content
\* items; no exception propagates out of call_tool.
C1_NoExceptionEscapes ==
  pc = "done" =>
    /\ outcome.kind = "return"
    /\ \A i \in 1..Len(outcome.content) : outcome.content[i].type = "text"

\* C2: in every successful fetch result the Bytes number is at most the
\* resolved max_bytes, hence at most 65536, and the body text is the decoding
\* of exactly that many leading bytes of the body.
C2_FetchByteCap ==
  FetchSucceeded =>
    /\ ResultText[2] <= locals.max_bytes
    /\ ResultText[2] <= 65536
    /\ ResultText[4] = Utf8Decode(SubSeq(WireBytes(net.wire), 1, ResultText[2]))

\* A fetch of a body longer than the resolved max_bytes, cut at it.
C2_Witness ==
  /\ FetchSucceeded
  /\ ~net.content_length.present
  /\ locals.max_bytes = 256
  /\ net.wire > locals.max_bytes
  /\ ResultText[2] = locals.max_bytes
  /\ Len(ResultText[4]) < ResultText[2]

ClampLaw(v) ==
  IF v <= 0 THEN 4096
  ELSE IF v < 256 THEN 256
  ELSE IF v <= 65536 THEN v
  ELSE 65536

\* C3: for an integer max_bytes v the fetch resolves max_bytes to 4096 when
\* v <= 0, 256 when 0 < v < 256, v when 256 <= v <= 65536, 65536 above; an
\* absent max_bytes resolves to 4096.
C3_ClampLaw ==
  (pc = "done" /\ name = "fetch") =>
    /\ "max_bytes" \notin DOMAIN arguments =>
         "max_bytes" \in DOMAIN locals /\ locals["max_bytes"] = 4096
    /\ ("max_bytes" \in DOMAIN arguments /\ arguments["max_bytes"].t = "int") =>
         /\ "max_bytes" \in DOMAIN locals
         /\ locals["max_bytes"] = ClampLaw(arguments["max_bytes"].v)
         /\ clamp(arguments["max_bytes"], 256, 65536).val
              = ClampLaw(arguments["max_bytes"].v)

\* A fetch given a max_bytes above the range, resolved to the top of the range.
C3_Witness ==
  /\ pc = "done"
  /\ name = "fetch"
  /\ "max_bytes" \in DOMAIN arguments
  /\ arguments["max_bytes"].t = "int"
  /\ arguments["max_bytes"].v > 65536
  /\ locals["max_bytes"] = 65536

\* The response declares a Content-Length of n (blanks around it allowed).
Declares(n) ==
  /\ net.content_length.present
  /\ net.content_length.raw \in {ToString(n), " " \o ToString(n) \o " "}

DeclaredValues == Sizes \cup {300}

\* C4: a successful fetch result carries " (truncated)" on its Bytes line
\* exactly when the response declares a Content-Length greater than the
\* resolved max_bytes; never when the header is absent or not greater.
C4_TruncationFlag ==
  FetchSucceeded =>
    ResultText[3] =
      (IF \E n \in DeclaredValues : Declares(n) /\ n > locals.max_bytes
       THEN " (truncated)\n\n" ELSE "\n\n")

\* A response declaring more than the cap, reported as truncated.
C4_Witness ==
  /\ FetchSucceeded
  /\ locals.max_bytes = 256
  /\ \E n \in DeclaredValues : Declares(n) /\ n > locals.max_bytes
  /\ ResultText[2] = locals.max_bytes
  /\ ResultText[3] = " (truncated)\n\n"

\* C5: a fetch whose url is absent or empty returns exactly "Error: URL is
\* required", one whose url is non-empty without an http(s) prefix returns
\* exactly "Error: URL must start with http:// or https://", whatever the other
\* arguments, and no request is issued.
C5_UrlValidation ==
  (pc = "done" /\ name = "fetch") =>
    LET url == Get(arguments, "url", JStr(""))
    IN /\ (url.t = "str" /\ url.v = "") =>
            OneText("Error: URL is required") /\ requests = 0
       /\ ( /\ url.t = "str"
            /\ url.v # ""
            /\ ~StartsWith(url.v, "http://")
            /\ ~StartsWith(url.v, "https://") ) =>
            /\ OneText("Error: URL must start with http:// or https://")
            /\ requests = 0

C7_TimeoutIsUrlError ==
  (pc = "done" /\ name = "fetch" /\ requests = 1 /\ net.kind = "timeout") =>
    /\ outcome.kind = "return"
    /\ Len(ResultText) = 1
    /\ StartsWith(ResultText[1], "URL Error: ")

\* C8: a timeserver invocation whose timezone is a non-empty string that is no
\* recognized zone name returns the single text "Error: invalid timezone
\* '<name>'".
C8_InvalidTimezone ==
  ( /\ pc = "done"
    /\ name = "timeserver"
    /\ "timezone" \in DOMAIN arguments
    /\ arguments["timezone"].t = "str"
    /\ arguments["timezone"].v # ""
    /\ arguments["timezone"].v \notin ZoneDatabase ) =>
    OneText("Error: invalid timezone '" \o arguments["timezone"].v \o "'")

\* C9 as stated: echotest without a message returns the raw argument payload
\* as its text, and with a message (a string) returns the message unchanged.
C9_EchoRawPayload ==
  (pc = "done" /\ name = "echotest") =>
    /\ "message" \notin DOMAIN arguments => OneText(payload)
    /\ ("message" \in DOMAIN arguments /\ arguments["message"].t = "str") =>
         OneText(arguments["message"].v)

\* C9 as amended: echotest without a message does not fail and returns the
\* empty string as its text; with a message (a string) it returns the message
\* unchanged.
C9_EchoDefaultEmpty ==
  (pc = "done" /\ name = "echotest") =>
    /\ "message" \notin DOMAIN arguments => OneText("")
    /\ ("message" \in DOMAIN arguments /\ arguments["message"].t = "str") =>
         OneText(arguments["message"].v)

\* An echotest invocation with no message, whose payload is not empty.
C9_Witness ==
  /\ pc = "done"
  /\ name = "echotest"
  /\ "message" \notin DOMAIN arguments
  /\ payload = "{}"
  /\ OneText("")

\* The catalogue lists echotest, timeserver, fetch in that order.
CatalogueOrder ==
  /\ Len(list_tools) = 3
  /\ list_tools[1].name = "echotest"
  /\ list_tools[2].name = "timeserver"
  /\ list_tools[3].name = "fetch"

\* C10 as stated: a name outside the catalogue returns exactly one text item
\* "Unknown tool: <name>"; a name of the catalogue (echotest, timeserver,
\* fetch, in that order) never yields that text.
C10_UnknownToolOnly ==
  /\ CatalogueOrder
  /\ pc = "done" =>
       /\ name \notin CatalogueNames => OneText("Unknown tool: " \o name)
       /\ name \in CatalogueNames => ~OneText("Unknown tool: " \o name)

\* C10 as amended: a name outside the catalogue returns exactly one text item
\* "Unknown tool: <name>"; a name of the catalogue is dispatched to its own
\* handler, and yields that text only when echotest echoes a message that is
\* that text.
C10_UnknownToolDispatch ==
  /\ CatalogueOrder
  /\ pc = "done" =>
       /\ name \notin CatalogueNames =>
            branch = "else" /\ OneText("Unknown tool: " \o name)
       /\ name \in CatalogueNames =>
            /\ branch = name
            /\ OneText("Unknown tool: " \o name) =>
                 /\ name = "echotest"
                 /\ "message" \in DOMAIN arguments
                 /\ arguments["message"].t = "str"
                 /\ arguments["message"].v = "Unknown tool: " \o name

\* An unknown name answered with the unknown-tool text.
C10_Witness ==
  /\ pc = "done"
  /\ name = "nope"
  /\ branch = "else"
  /\ OneText("Unknown tool: nope")

\* The result reports a failed attempt: one text in one of the three failure
\* shapes of 162-173.
FailureReported ==
  /\ Returned
  /\ Len(outcome.content) = 1
  /\ Len(ResultText) = 1
  /\ \/ StartsWith(ResultText[1], "HTTP Error ")
     \/ StartsWith(ResultText[1], "URL Error: ")
     \/ StartsWith(ResultText[1], "Fetch error: ")

\* The attempt of the fetch failed: an except clause bound the exception.
AttemptFailed == pc = "done" /\ branch = "fetch" /\ "e" \in DOMAIN locals

====
